---------------------------- MODULE Spec2Model ----------------------------
(***************************************************************************)
(* Detection-and-persistence pipeline of the mammography application:      *)
(*   - AppConfig           (src/app_utils/config.py)                       *)
(*   - ModelManager        (src/models/model_manager.py), the "Detector"   *)
(*   - ImageAnalysisWidget (src/ui_components/image_analysis.py), the      *)
(*     "Orchestrator", with its ModelLoadingThread and AnalysisThread      *)
(*                                                                         *)
(* Confidences and thresholds are floats in [0,1] in the program; they are *)
(* written here in hundredths (0.5 is 50), which keeps >= and > exact.     *)
(*                                                                         *)
(* The specifications share the definitions:                               *)
(*   SpecDetector - a single caller drives one ModelManager, one call      *)
(*                  after the other (the Detector's own contract);         *)
(*   SpecValidate - a single caller loads, unloads and validates;          *)
(*   SpecConfig   - a single caller reads the configuration and updates    *)
(*                  the thresholds;                                        *)
(*   SpecStatus   - a single caller loads, unloads, updates the thresholds *)
(*                  and asks for the status;                               *)
(*   Spec         - the widget: the interface thread, the model loading    *)
(*                  thread and the analysis threads, interleaved, with the *)
(*                  thresholds left as configured;                         *)
(*   SpecLive     - the widget with the scheduling of the threads and of    *)
(*                  the event loop, for what eventually happens;           *)
(*   SpecTuning   - the widget with one image and one patient, and the     *)
(*                  thresholds changed from the interface at any moment.   *)
(***************************************************************************)
EXTENDS Integers, Sequences, FiniteSets, TLC

VARIABLES
    config,         \* AppConfig.config, the "model" section
    model,          \* ModelManager.model: "None" or the path the YOLO object was built from
    model_path,     \* ModelManager.model_path
    is_loaded,      \* ModelManager.is_loaded
    model_info,     \* ModelManager.model_info: <<>> is the empty dict
    calls,          \* one frame per outstanding predict() call, by caller
    last,           \* the ModelManager call that was completed last
    \* ImageAnalysisWidget
    current_image_path,
    current_image,      \* "None" or the decoded file
    current_patient_id,
    analysis_result,    \* <<>> is None
    analyze_button,     \* isEnabled()
    progress_bar,       \* isVisible()
    status_label,       \* text()
    results_text,       \* the detections summarised in the results pane, <<>> when empty
    image_container,    \* the picture shown: the image and the boxes drawn on it
    model_thread,       \* ModelLoadingThread: "running" or "done"
    threads,            \* the AnalysisThread objects
    gui_queue,          \* signals queued for the interface thread, oldest first
    ui_last             \* what the latest handler of the interface thread did

detector == <<model, model_path, is_loaded, model_info>>
widget == <<current_image_path, current_image, current_patient_id, analysis_result,
            analyze_button, progress_bar, status_label, results_text, image_container,
            model_thread, threads, gui_queue, ui_last>>
vars == <<config, model, model_path, is_loaded, model_info, calls, last,
          current_image_path, current_image, current_patient_id, analysis_result,
          analyze_button, progress_bar, status_label, results_text, image_container,
          model_thread, threads, gui_queue, ui_last>>

---------------------------------------------------------------------------
(* Bounds and input domains *)

\* the longest list of boxes the underlying model returns
MaxBoxes == 2

\* confidences of raw boxes, in hundredths
Confs == {20, 50, 90}

\* values the thresholds are set to, in hundredths
ConfValues == {50, 70}
IouValues == {45, 60}

\* model files: two that load, one that does not exist, one that exists
\* and fails to initialise
Paths == {"a.pt", "b.pt", "missing.pt", "corrupt.pt"}

\* the model file the configuration names when the application starts: it
\* may or may not be there
ConfiguredPaths == {"a.pt", "missing.pt"}

\* image files the user can pick: one that decodes, one whose pixels are all
\* zero, one that cv2.imread cannot decode
ImageFiles == {"a.png", "black.png", "broken.png"}

\* what the user can have in the patient box: a patient id, or nothing
PatientTexts == {"P1", ""}

\* callers of predict(): the single direct caller and the analysis threads
Threads == {"T1", "T2"}
Callers == {"api"} \cup Threads

---------------------------------------------------------------------------
(* AppConfig *)

DefaultConfidence == 50
DefaultIou == 45

default_config ==
    [path |-> "a.pt",
     confidence_threshold |-> DefaultConfidence,
     iou_threshold |-> DefaultIou,
     device |-> "cpu"]

get_model_path == config.path
get_confidence_threshold == config.confidence_threshold
get_iou_threshold == config.iou_threshold
get_device == config.device

\* AppConfig.set on a key of the "model" section
config_set(cfg, key, value) == [cfg EXCEPT ![key] = value]

---------------------------------------------------------------------------
(* AppConfig.get over the nested mapping.  A value of the configuration is a
   mapping from keys to values or a scalar; a key path is the list of keys
   key_path.split('.') yields. *)

Leaf(v) == [dict |-> FALSE, value |-> v]
Dict(items) == [dict |-> TRUE, items |-> items]

\* self.config: the "model" section and, of the other sections, "ui"
config_tree ==
    Dict([model |-> Dict([path |-> Leaf(config.path),
                          confidence_threshold |-> Leaf(config.confidence_threshold),
                          iou_threshold |-> Leaf(config.iou_threshold),
                          device |-> Leaf(config.device)]),
          ui |-> Dict([theme |-> Leaf("dark")])])

\* lines 123-129: the loop over the keys
RECURSIVE get_walk(_, _, _)
get_walk(value, keys, default) ==
    IF keys = <<>> THEN value
    ELSE IF value.dict /\ Head(keys) \in DOMAIN value.items
    THEN get_walk(value.items[Head(keys)], Tail(keys), default)
    ELSE default

\* a lookup that answers a missing key with an error value of its own
get_key_error(key_path, default) == get_walk(config_tree, key_path, Leaf("KeyError"))

\* AppConfig.get(key_path, default)
get(key_path, default) == get_walk(config_tree, key_path, default)

\* the key paths and defaults callers pass: keys that exist, a section, an
\* unknown key, an unknown section, a path through a scalar, the empty string
KeyPaths ==
    { <<"model", "confidence_threshold">>, <<"model", "path">>, <<"model">>,
      <<"ui", "theme">>, <<"model", "nope">>, <<"nope">>, <<"nope", "x">>,
      <<"model", "device", "x">>, <<"ui", "theme", "x", "y">>, <<"">> }
GetDefaults == { Leaf("None"), Leaf("fallback") }

\* a caller reads the configuration
ConfigGet ==
    /\ \E key_path \in KeyPaths, default \in GetDefaults :
          last' = [op |-> "get", arg |-> key_path, default |-> default,
                   conf |-> 0, iou |-> 0, ret |-> get(key_path, default),
                   raised |-> FALSE, err |-> "", logs |-> <<>>,
                   was_loaded |-> is_loaded,
                   after_missing_load |-> last.after_missing_load]
    /\ UNCHANGED <<config, model, model_path, is_loaded, model_info, calls>>

---------------------------------------------------------------------------
(* The file system and the ultralytics library, as load_model sees them *)

PathExists(p) == p # "missing.pt"
\* YOLO(path) followed by model.eval() on an existing file: which step raises
InitOutcomes(p) == IF p = "corrupt.pt" THEN {"ctor_raises", "eval_raises"} ELSE {"ok"}
ValidPath(p) == PathExists(p) /\ InitOutcomes(p) = {"ok"}

\* the lists of boxes results[0].boxes can hold; a box is its position in the
\* model's output and its confidence
Box(k, c) == [bbox |-> k, confidence |-> c]
RawLists ==
    UNION { { [k \in 1..n |-> Box(k, f[k])] : f \in [1..n -> Confs] } : n \in 0..MaxBoxes }

---------------------------------------------------------------------------
(* ModelManager *)

NotLoadedMsg == "Model not loaded. Call load_model() first."
InferenceMsg == "inference failed"

NoLast == [op |-> "none", arg |-> "", conf |-> 0, iou |-> 0, ret |-> "None",
           raised |-> FALSE, err |-> "", logs |-> <<>>, was_loaded |-> FALSE,
           after_missing_load |-> FALSE]

IdleCall ==
    [pc |-> "idle", kind |-> "none", model_called |-> FALSE,
     conf |-> 0, iou |-> 0, raw |-> <<>>, i |-> 0,
     detections |-> <<>>, max_confidence |-> 0, ret |-> <<>>, err |-> "", logs |-> <<>>]

NoCallInFlight == \A c \in Callers : calls[c].pc = "idle"

\* hasattr(self.model, 'names'): whether the model built from p has a label
\* table
HasNames(p) == p # "b.pt"

\* a load that keeps the model information of the model loaded before
extract_model_info_stale(p) ==
    IF model_info # <<>> THEN model_info
    ELSE [model_type |-> "YOLOv5",
          model_path |-> p,
          device |-> get_device,
          input_shape |-> <<640, 640>>,
          confidence_threshold |-> get_confidence_threshold,
          iou_threshold |-> get_iou_threshold,
          classes |-> IF HasNames(p) THEN p ELSE "absent"]

\* _extract_model_info; the label table is named after the file it came
\* with, "absent" when the key "classes" is not set
extract_model_info(p) ==
    [model_type |-> "YOLOv5",
     model_path |-> p,
     device |-> get_device,
     input_shape |-> <<640, 640>>,
     confidence_threshold |-> get_confidence_threshold,
     iou_threshold |-> get_iou_threshold,
     classes |-> IF HasNames(p) THEN p ELSE "absent"]

\* load_model without the existence check and without its except clause:
\* a missing file raises out of the call
load_model_outcome_raises(p, outcome) ==
    IF ~PathExists(p) \/ outcome # "ok"
    THEN [model |-> model, model_path |-> p, is_loaded |-> is_loaded,
          model_info |-> model_info, ret |-> FALSE, raised |-> TRUE, logs |-> <<>>]
    ELSE [model |-> p, model_path |-> p, is_loaded |-> TRUE,
          model_info |-> extract_model_info(p), ret |-> TRUE, raised |-> FALSE,
          logs |-> <<"model_inference">>]

\* the outcome of load_model(p), p already resolved, when the library
\* behaves as `outcome`: the fields it leaves in the ModelManager, what it
\* returns and what it writes to the medical log
load_model_outcome(p, outcome) ==
    IF ~PathExists(p)
    THEN [model |-> model, model_path |-> p, is_loaded |-> is_loaded,
          model_info |-> model_info, ret |-> FALSE, raised |-> FALSE, logs |-> <<>>]
    ELSE IF outcome = "ctor_raises"
    THEN [model |-> model, model_path |-> p, is_loaded |-> is_loaded,
          model_info |-> model_info, ret |-> FALSE, raised |-> FALSE, logs |-> <<"error">>]
    ELSE IF outcome = "eval_raises"
    THEN [model |-> p, model_path |-> p, is_loaded |-> is_loaded,
          model_info |-> model_info, ret |-> FALSE, raised |-> FALSE, logs |-> <<"error">>]
    ELSE [model |-> p, model_path |-> p, is_loaded |-> TRUE,
          model_info |-> extract_model_info(p), ret |-> TRUE, raised |-> FALSE,
          logs |-> <<"model_inference">>]

\* load_model(arg): arg is a path or "None" (then the configured path is used)
load_model(arg) ==
    LET p == IF arg = "None" THEN get_model_path ELSE arg IN
    \E outcome \in InitOutcomes(p) :
        LET o == load_model_outcome(p, outcome) IN
        /\ model' = o.model
        /\ model_path' = o.model_path
        /\ is_loaded' = o.is_loaded
        /\ model_info' = o.model_info
        /\ last' = [op |-> "load_model", arg |-> p, conf |-> 0, iou |-> 0,
                    ret |-> o.ret, raised |-> o.raised,
                    err |-> "", logs |-> o.logs, was_loaded |-> is_loaded,
                    after_missing_load |->
                        \/ last.after_missing_load
                        \/ (last.op = "load_model" /\ ~PathExists(last.arg))]
        /\ UNCHANGED <<config, calls>>

\* an unload that forgets to clear model_path
unload_model_keeps_path ==
    /\ model' = "None"
    /\ is_loaded' = FALSE
    /\ model_info' = <<>>
    /\ last' = [NoLast EXCEPT !.op = "unload_model", !.was_loaded = is_loaded,
                              !.after_missing_load = last.after_missing_load]
    /\ UNCHANGED <<config, calls, model_path>>

\* unload_model
unload_model ==
    /\ model' = "None"
    /\ is_loaded' = FALSE
    /\ model_path' = "None"
    /\ model_info' = <<>>
    /\ last' = [NoLast EXCEPT !.op = "unload_model", !.was_loaded = is_loaded,
                              !.after_missing_load = last.after_missing_load]
    /\ UNCHANGED <<config, calls>>

\* an update that also writes the threshold that was not supplied
thresholds_after_writes_none(cfg, c, i) ==
    config_set(config_set(cfg, "confidence_threshold", c), "iou_threshold", i)

\* a status that reports the path of a loaded model only
get_model_status_loaded_only ==
    [is_loaded |-> is_loaded,
     model_path |-> IF is_loaded THEN model_path ELSE "None",
     device |-> get_device,
     model_info |-> model_info,
     confidence_threshold |-> get_confidence_threshold,
     iou_threshold |-> get_iou_threshold]

\* get_model_status
get_model_status ==
    [is_loaded |-> is_loaded,
     model_path |-> IF model_path # "None" THEN model_path ELSE "None",
     device |-> get_device,
     model_info |-> model_info,
     confidence_threshold |-> get_confidence_threshold,
     iou_threshold |-> get_iou_threshold]

\* update_thresholds(confidence_threshold, iou_threshold); 0 stands for None
thresholds_after(cfg, c, i) ==
    LET c1 == IF c # 0 THEN config_set(cfg, "confidence_threshold", c) ELSE cfg
    IN  IF i # 0 THEN config_set(c1, "iou_threshold", i) ELSE c1

update_thresholds(c, i) ==
    /\ config' = thresholds_after(config, c, i)
    /\ UNCHANGED <<detector, calls>>

---------------------------------------------------------------------------
(* ModelManager.predict, one step per read of shared state *)

\* the post-filter with a strict comparison
KeepStrict(conf, t) == conf > t

\* the post-filter with the comparison turned round
KeepBelow(conf, t) == conf <= t

\* line 217: the post-filter
Keep(conf, t) == conf >= t

\* the maximum replaced by the confidence of the box kept last
NewMaxLast(maxc, conf) == conf

\* lines 226-227: the running maximum
NewMax(maxc, conf) == IF conf > maxc THEN conf ELSE maxc

\* the not-loaded check made inside the try block, so that the handler of
\* lines 180-187 logs it
NotLoadedCallLogged(kind) ==
    [IdleCall EXCEPT !.pc = "raised", !.kind = kind, !.err = NotLoadedMsg,
                     !.logs = <<"error">>]

\* lines 147-148: the frame of a call made while not loaded
NotLoadedCall(kind) ==
    [IdleCall EXCEPT !.pc = "raised", !.kind = kind, !.err = NotLoadedMsg]

\* lines 147-150: entry
predict_enter(c, kind) ==
    /\ calls[c].pc = "idle"
    /\ calls' = [calls EXCEPT ![c] =
                    IF ~is_loaded THEN NotLoadedCall(kind)
                    ELSE [IdleCall EXCEPT !.pc = "invoke", !.kind = kind]]
    /\ UNCHANGED <<config, detector, last>>

\* lines 154-156, 201: the model is called with the thresholds read now and
\* returns boxes
predict_invoke(c, lists) ==
    /\ calls[c].pc = "invoke"
    /\ \E raw \in lists :
          calls' = [calls EXCEPT ![c] =
                       [@ EXCEPT !.pc = "loop", !.model_called = TRUE,
                                 !.conf = get_confidence_threshold,
                                 !.iou = get_iou_threshold, !.raw = raw, !.i = 1]]
    /\ UNCHANGED <<config, detector, last>>

\* lines 180-187: the frame after the model (or the processing of its
\* results) raised
InferenceFailedCall(f) ==
    [IdleCall EXCEPT !.pc = "raised", !.kind = f.kind, !.model_called = TRUE,
                     !.err = InferenceMsg, !.logs = <<"error">>]

\* a failed inference that also drops the loaded flag
predict_fail_unloads(c) ==
    /\ calls[c].pc = "invoke"
    /\ calls' = [calls EXCEPT ![c] = InferenceFailedCall(@)]
    /\ is_loaded' = FALSE
    /\ UNCHANGED <<config, model, model_path, model_info, last>>

predict_fail(c) ==
    /\ calls[c].pc = "invoke"
    /\ calls' = [calls EXCEPT ![c] = InferenceFailedCall(@)]
    /\ UNCHANGED <<config, detector, last>>

\* one iteration of the loop that puts a kept box in front of the list
process_box_prepend(f, t) ==
    LET box == f.raw[f.i]
        kept == Keep(box.confidence, t)
    IN  [f EXCEPT !.i = f.i + 1,
                  !.detections = IF kept THEN <<box>> \o @ ELSE @,
                  !.max_confidence = IF kept THEN NewMax(@, box.confidence) ELSE @]

\* lines 208-227: one iteration of the loop over the boxes
process_box(f, t) ==
    LET box == f.raw[f.i]
        kept == Keep(box.confidence, t)
    IN  [f EXCEPT !.i = f.i + 1,
                  !.detections = IF kept THEN Append(@, box) ELSE @,
                  !.max_confidence = IF kept THEN NewMax(@, box.confidence) ELSE @]

predict_box(c) ==
    /\ calls[c].pc = "loop"
    /\ calls[c].i <= Len(calls[c].raw)
    /\ calls' = [calls EXCEPT ![c] = process_box(@, get_confidence_threshold)]
    /\ UNCHANGED <<config, detector, last>>

\* lines 208-227: the whole loop, under one threshold t
RECURSIVE process_boxes(_, _)
process_boxes(f, t) ==
    IF f.i > Len(f.raw) THEN f ELSE process_boxes(process_box(f, t), t)

\* the detections _process_results keeps of the boxes `raw` under threshold t
filtered(raw, t) == process_boxes([IdleCall EXCEPT !.raw = raw, !.i = 1], t).detections

\* lines 229-234: what _process_results returns
process_results_value(f, t) ==
    [detections |-> f.detections,
     count |-> Len(f.detections),
     max_confidence |-> f.max_confidence,
     confidence_threshold |-> t]

\* lines 162-178: the log record and the value predict returns
predict_finish(c) ==
    /\ calls[c].pc = "loop"
    /\ calls[c].i > Len(calls[c].raw)
    /\ calls' = [calls EXCEPT ![c] =
                    [@ EXCEPT !.pc = "returned",
                              !.ret = [detections |->
                                           process_results_value(calls[c], get_confidence_threshold),
                                       model_info |-> model_info],
                              !.logs = <<"model_inference">>]]
    /\ UNCHANGED <<config, detector, last>>

---------------------------------------------------------------------------
(* The single caller of SpecDetector *)

ApiLoadModel ==
    /\ NoCallInFlight
    /\ \E arg \in Paths \cup {"None"} : load_model(arg)
    /\ UNCHANGED widget

ApiUnloadModel ==
    /\ NoCallInFlight
    /\ unload_model
    /\ UNCHANGED widget

ApiUpdateThresholds ==
    /\ NoCallInFlight
    /\ \E c \in ConfValues \cup {0}, i \in IouValues \cup {0} :
          /\ update_thresholds(c, i)
          /\ thresholds_after(config, c, i) # config
          /\ last' = [NoLast EXCEPT !.op = "update_thresholds", !.conf = c, !.iou = i,
                                    !.was_loaded = is_loaded,
                                    !.after_missing_load = last.after_missing_load]
    /\ UNCHANGED widget

ApiPredict ==
    /\ NoCallInFlight
    /\ predict_enter("api", "direct")
    /\ UNCHANGED widget

ApiPredictInvoke == predict_invoke("api", RawLists) /\ UNCHANGED widget
ApiPredictFail == predict_fail("api") /\ UNCHANGED widget
ApiPredictBox == predict_box("api") /\ UNCHANGED widget
ApiPredictFinish == predict_finish("api") /\ UNCHANGED widget

ApiConfigGet == ConfigGet /\ UNCHANGED widget

ApiGetModelStatus ==
    /\ NoCallInFlight
    /\ last' = [NoLast EXCEPT !.op = "get_model_status", !.ret = get_model_status,
                              !.was_loaded = is_loaded,
                              !.after_missing_load = last.after_missing_load]
    /\ UNCHANGED <<config, detector, calls, widget>>

\* control is back at the caller, with the value or the exception
ApiPredictDone ==
    /\ calls["api"].pc \in {"returned", "raised"}
    /\ calls["api"].kind = "direct"
    /\ last' = [op |-> "predict",
                arg |-> "", conf |-> 0, iou |-> 0,
                ret |-> IF calls["api"].pc = "returned" THEN "result" ELSE "None",
                raised |-> calls["api"].pc = "raised",
                err |-> calls["api"].err,
                logs |-> calls["api"].logs,
                was_loaded |-> is_loaded,
                after_missing_load |-> last.after_missing_load]
    /\ calls' = [calls EXCEPT !["api"] = IdleCall]
    /\ UNCHANGED <<config, detector, widget>>

\* a validation that lets the exception of the self-test through
validate_outcome_raises(f) ==
    [ret |-> "None", raised |-> f.pc = "raised", err |-> f.err]

\* lines 300-312: what validate_model_compatibility makes of the self-test
\* predict, whose frame is f
validate_outcome(f) ==
    IF f.pc = "raised"
    THEN [ret |-> FALSE, raised |-> FALSE, err |-> f.err]
    ELSE [ret |-> TRUE, raised |-> FALSE, err |-> ""]

MissingAttributeMsg == "Model missing required attribute"

\* the result of a validate_model_compatibility call, as `last` keeps it;
\* arg tells whether the model had the required attributes
ValidateLast(arg, o, logs) ==
    [NoLast EXCEPT !.op = "validate_model_compatibility", !.arg = arg, !.ret = o.ret,
                   !.raised = o.raised, !.err = o.err, !.logs = logs,
                   !.was_loaded = is_loaded,
                   !.after_missing_load = last.after_missing_load]

\* validate_model_compatibility, lines 288-299: the loaded check, the
\* attribute check, and the entry into the self-test predict
ApiValidate ==
    /\ NoCallInFlight
    /\ IF ~is_loaded
       THEN /\ last' = ValidateLast("", [ret |-> FALSE, raised |-> FALSE, err |-> ""], <<>>)
            /\ UNCHANGED <<config, detector, calls>>
       ELSE \E has_attrs \in BOOLEAN :
               IF ~has_attrs
               THEN /\ last' = ValidateLast("no_attrs",
                                            [ret |-> FALSE, raised |-> FALSE,
                                             err |-> MissingAttributeMsg], <<>>)
                    /\ UNCHANGED <<config, detector, calls>>
               ELSE predict_enter("api", "validate")
    /\ UNCHANGED widget

\* lines 300-312: the self-test predict is over
ApiValidateDone ==
    /\ calls["api"].pc \in {"returned", "raised"}
    /\ calls["api"].kind = "validate"
    /\ last' = ValidateLast("attrs", validate_outcome(calls["api"]), calls["api"].logs)
    /\ calls' = [calls EXCEPT !["api"] = IdleCall]
    /\ UNCHANGED <<config, detector, widget>>

---------------------------------------------------------------------------
(* ImageAnalysisWidget: state and helpers *)

NoPicture == [image |-> "None", overlay |-> <<>>]
\* an AnalysisThread: where it is, the image it was given, the patient that
\* was selected when it was created and, once its predict call is over, the
\* thresholds that call passed to the model
NoThread ==
    [st |-> "free", image |-> "None", patient |-> "None", used |-> [conf |-> 0, iou |-> 0]]

\* what a handler of the interface thread did: the message box it opened
\* ("" when none), the Persistence Gateway calls it made, how it ended, and
\* (for on_analysis_finished) its side effects in the order it made them
Handled(h, box, db, outcome) ==
    [handler |-> h, msg_box |-> box, db_calls |-> db, outcome |-> outcome, steps |-> <<>>]
NoHandler == Handled("none", "", <<>>, "")

\* a queued signal: its name, the thread that emitted it, the dict or the
\* message it carries
Signal(sig, t, result, msg) == [sig |-> sig, thread |-> t, result |-> result, msg |-> msg]

MsgLoadImageFirst == "Please load an image first."
MsgSelectPatient == "Please select a patient first."
MsgModelNotLoaded == "Model not loaded yet. Please wait."
MsgImageFailed == "Failed to load image: Failed to load image"
MsgModelFailed == "Failed to load model"
StatusCompleted == "Analysis completed successfully"
StatusError == "Analysis error"

\* cv2.imread: None for a file it cannot decode
imread(file) == IF file = "broken.png" THEN "None" ELSE file

\* numpy's ndarray.any(): false for an image whose pixels are all zero
any_pixel(image) == image # "black.png"

\* the lists of boxes the model returns to the analysis threads
WidgetRawLists == { <<>>, <<Box(1, 90), Box(2, 20)>> }

\* the AnalysisThread object a new analysis gets
NextThread == IF threads["T1"].st = "free" THEN "T1" ELSE "T2"

InFlight == { c \in Callers : calls[c].pc \in {"invoke", "loop"} }

---------------------------------------------------------------------------
(* The Persistence Gateway (database/manager.py is not among the sources):
   each call returns, returns nothing, or raises *)

DbOutcomes ==
    {"ok", "add_image_returns_none", "add_image_raises", "add_analysis_result_raises",
     "add_detection_count_raises", "add_max_confidence_raises"}

\* a save that writes the analytics points before the analysis result
save_calls_analytics_first(result, outcome) ==
    LET image == [call |-> "add_image", patient |-> current_patient_id,
                  image_path |-> current_image_path]
        res == [call |-> "add_analysis_result",
                confidence_threshold |-> get_confidence_threshold,
                iou_threshold |-> get_iou_threshold,
                detection_count |-> result.detections.count,
                max_confidence |-> result.detections.max_confidence,
                detections |-> result.detections.detections]
        cnt == [call |-> "add_analytics_data", patient |-> current_patient_id,
                metric |-> "detection_count", value |-> result.detections.count]
        mx == [call |-> "add_analytics_data", patient |-> current_patient_id,
               metric |-> "max_confidence", value |-> result.detections.max_confidence]
    IN  IF outcome \in {"add_image_returns_none", "add_image_raises"} THEN <<image>>
        ELSE <<image, cnt, mx, res>>

\* a save that goes on after add_image returned no image id
save_calls_ungated(result, outcome) ==
    LET image == [call |-> "add_image", patient |-> current_patient_id,
                  image_path |-> current_image_path]
        res == [call |-> "add_analysis_result",
                confidence_threshold |-> get_confidence_threshold,
                iou_threshold |-> get_iou_threshold,
                detection_count |-> result.detections.count,
                max_confidence |-> result.detections.max_confidence,
                detections |-> result.detections.detections]
        cnt == [call |-> "add_analytics_data", patient |-> current_patient_id,
                metric |-> "detection_count", value |-> result.detections.count]
        mx == [call |-> "add_analytics_data", patient |-> current_patient_id,
               metric |-> "max_confidence", value |-> result.detections.max_confidence]
    IN  IF outcome = "add_image_raises" THEN <<image>>
        ELSE IF outcome = "add_analysis_result_raises" THEN <<image, res>>
        ELSE IF outcome = "add_detection_count_raises" THEN <<image, res, cnt>>
        ELSE <<image, res, cnt, mx>>

\* save_analysis_to_database: the gateway calls it makes, in order, when the
\* gateway behaves as `outcome`; the last one is the one that failed
save_calls(result, outcome) ==
    LET image == [call |-> "add_image", patient |-> current_patient_id,
                  image_path |-> current_image_path]
        res == [call |-> "add_analysis_result",
                confidence_threshold |-> get_confidence_threshold,
                iou_threshold |-> get_iou_threshold,
                detection_count |-> result.detections.count,
                max_confidence |-> result.detections.max_confidence,
                detections |-> result.detections.detections]
        cnt == [call |-> "add_analytics_data", patient |-> current_patient_id,
                metric |-> "detection_count", value |-> result.detections.count]
        mx == [call |-> "add_analytics_data", patient |-> current_patient_id,
               metric |-> "max_confidence", value |-> result.detections.max_confidence]
    IN  IF outcome \in {"add_image_returns_none", "add_image_raises"} THEN <<image>>
        ELSE IF outcome = "add_analysis_result_raises" THEN <<image, res>>
        ELSE IF outcome = "add_detection_count_raises" THEN <<image, res, cnt>>
        ELSE <<image, res, cnt, mx>>

---------------------------------------------------------------------------
(* Handlers of the interface thread that the user triggers *)

\* load_image(file_path)
load_image(file) ==
    /\ current_image_path' = file
    /\ current_image' = imread(file)
    /\ IF imread(file) = "None"
       THEN /\ ui_last' = Handled("load_image", MsgImageFailed, <<>>, "error")
            /\ UNCHANGED <<analyze_button, status_label, image_container>>
       ELSE /\ image_container' = [image |-> imread(file), overlay |-> <<>>]
            /\ analyze_button' = TRUE
            /\ status_label' = "Image loaded successfully"
            /\ ui_last' = Handled("load_image", "", <<>>, "ok")
    /\ UNCHANGED <<config, detector, calls, last, current_patient_id, analysis_result,
                   progress_bar, results_text, model_thread, threads, gui_queue>>

\* select_current_patient, with `text` in the patient box
select_current_patient(text) ==
    /\ IF text # ""
       THEN /\ current_patient_id' = text
            /\ status_label' = "Selected patient"
       ELSE UNCHANGED <<current_patient_id, status_label>>
    /\ ui_last' = Handled("select_current_patient", "", <<>>, "ok")
    /\ UNCHANGED <<config, detector, calls, last, current_image_path, current_image,
                   analysis_result, analyze_button, progress_bar, results_text,
                   image_container, model_thread, threads, gui_queue>>

\* lines 322-332: the checks of start_analysis, in the order of the code.
\* "AttributeError" is None.any() raising out of the slot.
start_analysis_check ==
    IF current_image = "None" THEN "AttributeError"
    ELSE IF ~any_pixel(current_image) THEN MsgLoadImageFirst
    ELSE IF current_patient_id = "None" THEN MsgSelectPatient
    ELSE IF ~is_loaded THEN MsgModelNotLoaded
    ELSE "pass"

\* start_analysis, reached by a click on the enabled analyze button
start_analysis ==
    /\ analyze_button
    /\ LET check == start_analysis_check IN
       IF check = "AttributeError"
       THEN /\ ui_last' = Handled("start_analysis", "", <<>>, "AttributeError")
            /\ UNCHANGED threads
       ELSE IF check # "pass"
       THEN /\ ui_last' = Handled("start_analysis", check, <<>>, "warning")
            /\ UNCHANGED threads
       ELSE /\ threads[NextThread].st = "free"
            /\ threads' = [threads EXCEPT ![NextThread] =
                              [NoThread EXCEPT !.st = "started", !.image = current_image,
                                               !.patient = current_patient_id]]
            /\ ui_last' = Handled("start_analysis", "", <<>>, "dispatched")
    /\ UNCHANGED <<config, detector, calls, last, current_image_path, current_image,
                   current_patient_id, analysis_result, analyze_button, progress_bar,
                   status_label, results_text, image_container, model_thread, gui_queue>>

\* update_confidence_threshold(value), on valueChanged of the spin box
update_confidence_threshold(value) ==
    /\ value # get_confidence_threshold
    /\ config' = thresholds_after(config_set(config, "confidence_threshold", value), value, 0)
    /\ ui_last' = Handled("update_confidence_threshold", "", <<>>, "ok")
    /\ UNCHANGED <<detector, calls, last, current_image_path, current_image,
                   current_patient_id, analysis_result, analyze_button, progress_bar,
                   status_label, results_text, image_container, model_thread, threads,
                   gui_queue>>

\* update_iou_threshold(value)
update_iou_threshold(value) ==
    /\ value # get_iou_threshold
    /\ config' = thresholds_after(config_set(config, "iou_threshold", value), 0, value)
    /\ ui_last' = Handled("update_iou_threshold", "", <<>>, "ok")
    /\ UNCHANGED <<detector, calls, last, current_image_path, current_image,
                   current_patient_id, analysis_result, analyze_button, progress_bar,
                   status_label, results_text, image_container, model_thread, threads,
                   gui_queue>>

---------------------------------------------------------------------------
(* The worker threads *)

widget_but_threads_and_queue ==
    <<current_image_path, current_image, current_patient_id, analysis_result,
      analyze_button, progress_bar, status_label, results_text, image_container,
      model_thread, ui_last>>

\* ModelLoadingThread.run
model_loading_run ==
    /\ model_thread = "running"
    /\ load_model("None")
    /\ model_thread' = "done"
    /\ gui_queue' = Append(gui_queue,
                           IF last'.ret
                           THEN Signal("model_finished", "model", <<>>, "")
                           ELSE Signal("model_error", "model", <<>>, MsgModelFailed))
    /\ UNCHANGED <<current_image_path, current_image, current_patient_id, analysis_result,
                   analyze_button, progress_bar, status_label, results_text,
                   image_container, threads, ui_last>>

\* QThread.start(): the thread emits started and run() calls predict
analysis_run(t) ==
    /\ threads[t].st = "started"
    /\ threads' = [threads EXCEPT ![t].st = "running"]
    /\ gui_queue' = Append(gui_queue, Signal("started", t, <<>>, ""))
    /\ predict_enter(t, "analysis")
    /\ UNCHANGED widget_but_threads_and_queue

analysis_invoke(t) == predict_invoke(t, WidgetRawLists) /\ UNCHANGED widget
analysis_fail(t) == predict_fail(t) /\ UNCHANGED widget
analysis_box(t) == predict_box(t) /\ UNCHANGED widget
analysis_finish(t) == predict_finish(t) /\ UNCHANGED widget

\* a run that reports every outcome on the error signal
run_signal_error_only(t, f) == Signal("error", t, <<>>, f.err)

\* lines 550-554: the signal run() emits for the outcome of predict
run_signal(t, f) ==
    IF f.pc = "returned"
    THEN Signal("finished", t, f.ret, "")
    ELSE Signal("error", t, <<>>, f.err)

\* a run that ends without a signal
analysis_emit_silent(t) ==
    /\ threads[t].st = "running"
    /\ calls[t].pc \in {"returned", "raised"}
    /\ calls' = [calls EXCEPT ![t] = IdleCall]
    /\ threads' = [threads EXCEPT ![t].st = "emitted",
                                  ![t].used = [conf |-> calls[t].conf, iou |-> calls[t].iou]]
    /\ UNCHANGED <<config, detector, last, gui_queue>>
    /\ UNCHANGED widget_but_threads_and_queue

analysis_emit(t) ==
    /\ threads[t].st = "running"
    /\ calls[t].pc \in {"returned", "raised"}
    /\ gui_queue' = Append(gui_queue, run_signal(t, calls[t]))
    /\ calls' = [calls EXCEPT ![t] = IdleCall]
    /\ threads' = [threads EXCEPT ![t].st = "emitted",
                                  ![t].used = [conf |-> calls[t].conf, iou |-> calls[t].iou]]
    /\ UNCHANGED <<config, detector, last>>
    /\ UNCHANGED widget_but_threads_and_queue

---------------------------------------------------------------------------
(* Handlers of the interface thread that a queued signal triggers *)

Delivered(sig) ==
    /\ gui_queue # <<>>
    /\ Head(gui_queue).sig = sig
    /\ gui_queue' = Tail(gui_queue)

\* on_analysis_started
on_analysis_started ==
    /\ Delivered("started")
    /\ progress_bar' = TRUE
    /\ analyze_button' = FALSE
    /\ status_label' = "Analyzing image..."
    /\ ui_last' = Handled("on_analysis_started", "", <<>>, "ok")
    /\ UNCHANGED <<config, detector, calls, last, current_image_path, current_image,
                   current_patient_id, analysis_result, results_text, image_container,
                   model_thread, threads>>

\* display_analysis_results: the picture and the results pane after it; with
\* no current image, copy() raises and the handler of line 420 leaves both
displayed(result) ==
    IF current_image = "None"
    THEN [image_container |-> image_container, results_text |-> results_text]
    ELSE [image_container |-> [image |-> current_image,
                               overlay |-> result.detections.detections],
          results_text |-> result.detections]

\* lines 368-369: the status on_analysis_finished ends with, given how
\* save_analysis_to_database went
finished_status(outcome) == StatusCompleted

\* the message box on_analysis_finished opens, given how
\* save_analysis_to_database went: lines 490-491 only log
finished_msg_box(outcome) == ""

\* lines 365-366: display_analysis_results, then save_analysis_to_database
\* with the gateway calls `db` it makes
finished_steps(db) ==
    <<[call |-> "display_analysis_results", drawn |-> current_image # "None"]>> \o db

\* on_analysis_finished(result)
on_analysis_finished ==
    /\ Delivered("finished")
    /\ LET e == Head(gui_queue) IN
       \E outcome \in DbOutcomes :
          /\ analysis_result' = e.result
          /\ progress_bar' = FALSE
          /\ analyze_button' = TRUE
          /\ image_container' = displayed(e.result).image_container
          /\ results_text' = displayed(e.result).results_text
          /\ status_label' = finished_status(outcome)
          /\ ui_last' = [Handled("on_analysis_finished", finished_msg_box(outcome),
                                 save_calls(e.result, outcome), outcome)
                             EXCEPT !.steps = finished_steps(save_calls(e.result, outcome))]
          /\ threads' = [threads EXCEPT ![e.thread] = NoThread]
    /\ UNCHANGED <<config, detector, calls, last, current_image_path, current_image,
                   current_patient_id, model_thread>>

\* an error handler that also records the failed analysis
error_db_calls_saves(msg) ==
    <<[call |-> "add_image", patient |-> current_patient_id,
       image_path |-> current_image_path]>>

\* the Persistence Gateway calls on_analysis_error makes: none
error_db_calls(msg) == <<>>

\* lines 380-382: the text of the message box, the parts of the f-string
error_box(msg) == <<"Analysis failed: ", msg>>

\* an error handler that starts the failed analysis again
on_analysis_error_retries ==
    /\ Delivered("error")
    /\ LET e == Head(gui_queue) IN
          /\ progress_bar' = FALSE
          /\ analyze_button' = TRUE
          /\ status_label' = StatusError
          /\ ui_last' = [Handled("on_analysis_error", e.msg, error_db_calls(e.msg), "ok")
                             EXCEPT !.steps = <<[call |-> "QMessageBox.critical",
                                                 text |-> error_box(e.msg)]>>]
          /\ threads' = [threads EXCEPT ![e.thread] =
                            [NoThread EXCEPT !.st = "started",
                                             !.image = threads[e.thread].image]]
    /\ UNCHANGED <<config, detector, calls, last, current_image_path, current_image,
                   current_patient_id, analysis_result, results_text, image_container,
                   model_thread>>

\* on_analysis_error(error_msg)
on_analysis_error ==
    /\ Delivered("error")
    /\ LET e == Head(gui_queue) IN
          /\ progress_bar' = FALSE
          /\ analyze_button' = TRUE
          /\ status_label' = StatusError
          /\ ui_last' = [Handled("on_analysis_error", e.msg, error_db_calls(e.msg), "ok")
                             EXCEPT !.steps = <<[call |-> "QMessageBox.critical",
                                                 text |-> error_box(e.msg)]>>]
          /\ threads' = [threads EXCEPT ![e.thread] = NoThread]
    /\ UNCHANGED <<config, detector, calls, last, current_image_path, current_image,
                   current_patient_id, analysis_result, results_text, image_container,
                   model_thread>>

\* on_model_loaded
on_model_loaded ==
    /\ Delivered("model_finished")
    /\ status_label' = "Model loaded successfully"
    /\ ui_last' = Handled("on_model_loaded", "", <<>>, "ok")
    /\ UNCHANGED <<config, detector, calls, last, current_image_path, current_image,
                   current_patient_id, analysis_result, analyze_button, progress_bar,
                   results_text, image_container, model_thread, threads>>

\* on_model_error(error_msg)
on_model_error ==
    /\ Delivered("model_error")
    /\ status_label' = "Model loading failed"
    /\ ui_last' = Handled("on_model_error", Head(gui_queue).msg, <<>>, "ok")
    /\ UNCHANGED <<config, detector, calls, last, current_image_path, current_image,
                   current_patient_id, analysis_result, analyze_button, progress_bar,
                   results_text, image_container, model_thread, threads>>

---------------------------------------------------------------------------

\* the state once ImageAnalysisWidget.__init__ has returned: the model loading
\* thread is started and has not run yet
Init ==
    /\ \E p \in ConfiguredPaths : config = [default_config EXCEPT !.path = p]
    /\ model = "None"
    /\ model_path = "None"
    /\ is_loaded = FALSE
    /\ model_info = <<>>
    /\ calls = [c \in Callers |-> IdleCall]
    /\ last = NoLast
    /\ current_image_path = "None"
    /\ current_image = "None"
    /\ current_patient_id = "None"
    /\ analysis_result = <<>>
    /\ analyze_button = FALSE
    /\ progress_bar = FALSE
    /\ status_label = "Loading model..."
    /\ results_text = <<>>
    /\ image_container = NoPicture
    /\ model_thread = "running"
    /\ threads = [t \in Threads |-> NoThread]
    /\ gui_queue = <<>>
    /\ ui_last = NoHandler

NextDetector ==
    \/ ApiLoadModel
    \/ ApiUnloadModel
    \/ ApiUpdateThresholds
    \/ ApiPredict
    \/ ApiPredictInvoke
    \/ ApiPredictFail
    \/ ApiPredictBox
    \/ ApiPredictFinish
    \/ ApiPredictDone

SpecDetector == Init /\ [][NextDetector]_vars

\* a caller that loads, unloads and validates
NextValidate ==
    \/ ApiLoadModel
    \/ ApiUnloadModel
    \/ ApiValidate
    \/ ApiPredictInvoke
    \/ ApiPredictFail
    \/ ApiPredictBox
    \/ ApiPredictFinish
    \/ ApiValidateDone

SpecValidate == Init /\ [][NextValidate]_vars

\* a caller that reads the configuration and updates the thresholds
NextConfig ==
    \/ ApiConfigGet
    \/ ApiUpdateThresholds

SpecConfig == Init /\ [][NextConfig]_vars

\* a caller that loads, unloads, updates the thresholds and asks for the status
NextStatus ==
    \/ ApiLoadModel
    \/ ApiUnloadModel
    \/ ApiUpdateThresholds
    \/ ApiGetModelStatus

SpecStatus == Init /\ [][NextStatus]_vars

Next ==
    \/ model_loading_run
    \/ \E file \in ImageFiles : load_image(file)
    \/ \E text \in PatientTexts : select_current_patient(text)
    \/ start_analysis
    \/ \E t \in Threads : analysis_run(t)
    \/ \E t \in Threads : analysis_invoke(t)
    \/ \E t \in Threads : analysis_fail(t)
    \/ \E t \in Threads : analysis_box(t)
    \/ \E t \in Threads : analysis_finish(t)
    \/ \E t \in Threads : analysis_emit(t)
    \/ on_analysis_started
    \/ on_analysis_finished
    \/ on_analysis_error
    \/ on_model_loaded
    \/ on_model_error

Spec == Init /\ [][Next]_vars

\* scheduling: a started thread runs, the model call returns or raises,
\* predict and run() go on to their end, and the event loop of the interface
\* thread delivers every queued signal; the user is under no obligation
Fairness ==
    /\ WF_vars(model_loading_run)
    /\ \A t \in Threads :
          /\ WF_vars(analysis_run(t))
          /\ WF_vars(analysis_invoke(t) \/ analysis_fail(t))
          /\ WF_vars(analysis_box(t))
          /\ WF_vars(analysis_finish(t))
          /\ WF_vars(analysis_emit(t))
    /\ WF_vars(on_analysis_started)
    /\ WF_vars(on_analysis_finished)
    /\ WF_vars(on_analysis_error)
    /\ WF_vars(on_model_loaded)
    /\ WF_vars(on_model_error)

\* the widget with a user who loads a.png at any moment, selects a patient
\* once and clicks the analyze button whenever it is enabled
NextLive ==
    \/ model_loading_run
    \/ load_image("a.png")
    \/ current_patient_id = "None" /\ select_current_patient("P1")
    \/ start_analysis
    \/ \E t \in Threads : analysis_run(t)
    \/ \E t \in Threads : analysis_invoke(t)
    \/ \E t \in Threads : analysis_fail(t)
    \/ \E t \in Threads : analysis_box(t)
    \/ \E t \in Threads : analysis_finish(t)
    \/ \E t \in Threads : analysis_emit(t)
    \/ on_analysis_started
    \/ on_analysis_finished
    \/ on_analysis_error
    \/ on_model_loaded
    \/ on_model_error

SpecLive == Init /\ [][NextLive]_vars /\ Fairness

\* the widget with a user who loads one image, selects one patient, starts
\* an analysis when none is under way, and turns the threshold spin boxes at
\* any moment
NextTuning ==
    \/ model_loading_run
    \/ current_image = "None" /\ load_image("a.png")
    \/ current_patient_id = "None" /\ select_current_patient("P1")
    \/ (\A t \in Threads : threads[t].st = "free") /\ start_analysis
    \/ \E value \in ConfValues : update_confidence_threshold(value)
    \/ \E value \in IouValues : update_iou_threshold(value)
    \/ \E t \in Threads : analysis_run(t)
    \/ \E t \in Threads : analysis_invoke(t)
    \/ \E t \in Threads : analysis_fail(t)
    \/ \E t \in Threads : analysis_box(t)
    \/ \E t \in Threads : analysis_finish(t)
    \/ \E t \in Threads : analysis_emit(t)
    \/ on_analysis_started
    \/ on_analysis_finished
    \/ on_analysis_error
    \/ on_model_loaded
    \/ on_model_error

SpecTuning == Init /\ [][NextTuning]_vars

---------------------------------------------------------------------------
(* Helpers of the claims *)

Range(seq) == { seq[k] : k \in DOMAIN seq }
\* the outcome signals of thread t that wait in the queue
Outcomes(q, t) ==
    { k \in DOMAIN q : q[k].thread = t /\ q[k].sig \notin {"started"} }
ConfsOf(seq) == { seq[k].confidence : k \in DOMAIN seq }
MaxOf(S) == IF S = {} THEN 0 ELSE CHOOSE m \in S : \A x \in S : x <= m
Returned(c) == calls[c].pc = "returned"
Retained(c) == calls[c].ret.detections.detections

---------------------------------------------------------------------------
(* Claims checked under SpecDetector *)

\* C1: the detections predict returns are exactly the raw detections whose
\* confidence is at least the active threshold t, and none below t.
C1_ExactFilter ==
    \A c \in Callers :
        Returned(c) =>
            LET t == get_confidence_threshold IN
            /\ Range(Retained(c)) = { b \in Range(calls[c].raw) : b.confidence >= t }
            /\ \A b \in Range(Retained(c)) : ~(b.confidence < t)

\* C1, the scenario of the spec: raw confidences [0.9, 0.2] under threshold
\* 0.5 came back as the 0.9 entry alone.
C1_Witness ==
    /\ Returned("api")
    /\ get_confidence_threshold = 50
    /\ calls["api"].raw = <<Box(1, 90), Box(2, 20)>>
    /\ Retained("api") = <<Box(1, 90)>>

\* C2: max_confidence of a returned result is the maximum confidence among
\* the retained detections, and 0.0 when none is retained.
C2_MaxConfidence ==
    \A c \in Callers :
        Returned(c) =>
            calls[c].ret.detections.max_confidence = MaxOf(ConfsOf(Retained(c)))

\* C2: a result whose maximum is not the detection kept last, and one with
\* an empty retained list, are both cases the model reaches; this is the first.
C2_Witness ==
    /\ Returned("api")
    /\ Retained("api") = <<Box(1, 90), Box(2, 50)>>
    /\ calls["api"].ret.detections.max_confidence = 90

\* C3: a predict entered while is_loaded is false ends at once with the
\* not-loaded error: the model is not called, no log record is written, and
\* the Detector, the configuration and everything else stay as they were.
C3_PredictUnloaded ==
    [][\A c \in Callers :
          (calls[c].pc = "idle" /\ calls'[c].pc # "idle" /\ ~is_loaded) =>
              /\ calls'[c].pc = "raised"
              /\ calls'[c].err = NotLoadedMsg
              /\ ~calls'[c].model_called
              /\ calls'[c].logs = <<>>
              /\ calls'[c].ret = <<>>
              /\ UNCHANGED <<config, model, model_path, is_loaded, model_info, last>>]_vars

C3_Witness ==
    /\ ~is_loaded
    /\ calls["api"].pc = "raised"
    /\ calls["api"].err = NotLoadedMsg

C5_FailedLoadUnloads ==
    last.op = "load_model" => (last.ret = TRUE <=> is_loaded)

\* C6: no step of a predict call changes is_loaded, the held model,
\* model_path or model_info, and after a failed inference the Detector is
\* still Loaded (so that the next predict passes the loaded check).
C6_PredictKeepsLifecycle ==
    /\ [](\A c \in Callers :
             (calls[c].pc = "raised" /\ calls[c].err = InferenceMsg) => is_loaded)
    /\ [][(\E c \in Callers : calls'[c] # calls[c]) =>
             UNCHANGED <<model, model_path, is_loaded, model_info>>]_vars

C6_Witness ==
    /\ calls["api"].pc = "raised"
    /\ calls["api"].err = InferenceMsg
    /\ is_loaded

---------------------------------------------------------------------------
(* Further claims checked under SpecDetector *)

\* the thresholds the filter is compared under
FilterThresholds == Confs \cup ConfValues

\* C14: the confidence filter is monotone: for the raw output of a call and
\* any two thresholds t1 <= t2, the detections kept under t2 are among those
\* kept under t1; the detections the call returned are those the filter keeps
\* under the active threshold.
C14_FilterMonotone ==
    \A c \in Callers :
        Returned(c) =>
            /\ Retained(c) = filtered(calls[c].raw, get_confidence_threshold)
            /\ \A t1 \in FilterThresholds, t2 \in FilterThresholds :
                  t1 <= t2 =>
                      Range(filtered(calls[c].raw, t2)) \subseteq Range(filtered(calls[c].raw, t1))

\* C14: a raw output of which raising the threshold from 0.5 to 0.7 removes
\* a detection
C14_Witness ==
    /\ Returned("api")
    /\ get_confidence_threshold = 50
    /\ Retained("api") = <<Box(1, 90), Box(2, 50)>>
    /\ filtered(calls["api"].raw, 70) = <<Box(1, 90)>>

\* a step that is a call of unload_model
UnloadStep == last'.op = "unload_model" /\ UNCHANGED <<calls, config>> /\ vars' # vars
Unloaded == ~is_loaded /\ model = "None" /\ model_path = "None" /\ model_info = <<>>

\* C16: unload_model raises nothing and always ends Unloaded with no model
\* held, no path and no model information; called on a Detector that is
\* already in that state it changes nothing, so that unload;unload ends in
\* the state of a single unload; called on any Detector that is not loaded
\* it leaves it not loaded.
C16_UnloadIdempotent ==
    [][UnloadStep =>
          /\ ~last'.raised
          /\ Unloaded'
          /\ (Unloaded => UNCHANGED <<model, model_path, is_loaded, model_info, config>>)
          /\ (~is_loaded => ~is_loaded')]_vars

\* C16: unload_model has returned from a call made while already Unloaded
C16_Witness ==
    /\ last.op = "unload_model"
    /\ ~last.was_loaded
    /\ ~last.raised
    /\ Unloaded

\* C15: update_thresholds is callable whether or not the Detector is loaded;
\* each supplied value is what the configuration returns afterwards, an
\* omitted threshold (0) and the rest of the configuration stay as they were,
\* the Detector and the outstanding or returned calls are not touched; and
\* the predict call that follows passes the values now configured to the
\* model and filters and reports with them.
C15_UpdateThresholds ==
    /\ [][config' # config =>
             /\ last'.op = "update_thresholds"
             /\ last'.was_loaded = is_loaded
             /\ (last'.conf # 0 => config'.confidence_threshold = last'.conf)
             /\ (last'.conf = 0 => config'.confidence_threshold = config.confidence_threshold)
             /\ (last'.iou # 0 => config'.iou_threshold = last'.iou)
             /\ (last'.iou = 0 => config'.iou_threshold = config.iou_threshold)
             /\ config'.path = config.path
             /\ config'.device = config.device
             /\ UNCHANGED <<model, model_path, is_loaded, model_info, calls, widget>>]_vars
    /\ [](\A c \in Callers :
             (Returned(c) /\ last.op = "update_thresholds") =>
                 /\ last.conf # 0 => calls[c].conf = last.conf
                 /\ last.iou # 0 => calls[c].iou = last.iou
                 /\ calls[c].conf = get_confidence_threshold
                 /\ calls[c].iou = get_iou_threshold
                 /\ calls[c].ret.detections.confidence_threshold = get_confidence_threshold
                 /\ Retained(c) = filtered(calls[c].raw, get_confidence_threshold))

\* C15: the confidence threshold alone was raised to 0.7, and the predict
\* call after it dropped a box of confidence 0.5
C15_Witness ==
    /\ Returned("api")
    /\ last.op = "update_thresholds"
    /\ last.conf = 70
    /\ last.iou = 0
    /\ get_iou_threshold = DefaultIou
    /\ calls["api"].conf = 70
    /\ calls["api"].raw = <<Box(1, 90), Box(2, 50)>>
    /\ Retained("api") = <<Box(1, 90)>>

\* C18: a predict call that reached the model has written an inference log
\* record when control leaves it, whether it returned or raised; when it
\* raised it has also written an error log record and carries the exception.
C18_InferenceAlwaysLogged ==
    \A c \in Callers :
        (calls[c].pc \in {"returned", "raised"} /\ calls[c].model_called) =>
            /\ \E k \in DOMAIN calls[c].logs : calls[c].logs[k] = "model_inference"
            /\ (calls[c].pc = "raised" =>
                   /\ \E k \in DOMAIN calls[c].logs : calls[c].logs[k] = "error"
                   /\ calls[c].err = InferenceMsg)

\* C19: the detections a call returns are a subsequence of the raw boxes, in
\* the order the model emitted them (a box carries its position in the raw
\* list as bbox).
C19_NoReordering ==
    \A c \in Callers :
        Returned(c) =>
            LET d == Retained(c) IN
            /\ \A k \in DOMAIN d :
                  /\ d[k].bbox \in DOMAIN calls[c].raw
                  /\ d[k] = calls[c].raw[d[k].bbox]
            /\ \A j \in DOMAIN d, k \in DOMAIN d : j < k => d[j].bbox < d[k].bbox

\* C19: two detections were kept whose order is not by decreasing confidence
C19_Witness ==
    /\ Returned("api")
    /\ calls["api"].raw = <<Box(1, 50), Box(2, 90)>>
    /\ Retained("api") = <<Box(1, 50), Box(2, 90)>>

\* C24: a load_model call that returned True leaves the Detector Loaded,
\* holding the model of the path it was given, with the metadata of that
\* path: the path, the device, input shape 640x640 and the label table when
\* the model has one; this also when the Detector was Loaded before the call.
C24_LoadCapturesMetadata ==
    (last.op = "load_model" /\ last.ret = TRUE) =>
        /\ ~last.raised
        /\ is_loaded
        /\ model = last.arg
        /\ model_path = last.arg
        /\ model_info # <<>>
        /\ model_info.model_path = last.arg
        /\ model_info.device = get_device
        /\ model_info.input_shape = <<640, 640>>
        /\ model_info.classes = (IF HasNames(last.arg) THEN last.arg ELSE "absent")

\* C24: b.pt was loaded, with success, into a Detector that was Loaded
C24_Witness ==
    /\ last.op = "load_model"
    /\ last.ret = TRUE
    /\ last.was_loaded
    /\ last.arg = "b.pt"
    /\ get_model_path # "b.pt"
    /\ is_loaded
    /\ model_info.model_path = "b.pt"

\* C29: the path get_model_status reports identifies the model held: it is
\* None whenever the Detector is not loaded, and whenever is_loaded is true
\* a model is held and model_path is the model_path of model_info.
C29_StatusPathIdentifiesModel ==
    /\ ~is_loaded => get_model_status.model_path = "None"
    /\ is_loaded =>
          /\ model # "None"
          /\ model_info # <<>>
          /\ get_model_status.model_path = model_info.model_path

---------------------------------------------------------------------------
(* Claims checked under SpecValidate *)

\* C17: validate_model_compatibility never raises and returns a boolean:
\* False when the Detector is not loaded, when the model lacks a required
\* attribute, and when the self-test predict raised; True only when the
\* Detector was loaded, the attributes were there and the self-test predict
\* returned.
C17_ValidateNeverRaises ==
    last.op = "validate_model_compatibility" =>
        /\ ~last.raised
        /\ last.ret \in BOOLEAN
        /\ (~last.was_loaded => last.ret = FALSE)
        /\ (last.arg = "no_attrs" => last.ret = FALSE)
        /\ (last.err # "" => last.ret = FALSE)
        /\ (last.ret = TRUE =>
               /\ last.was_loaded
               /\ last.arg = "attrs"
               /\ last.logs = <<"model_inference">>)

\* C17: a validation whose self-test inference failed has returned False
C17_Witness ==
    /\ last.op = "validate_model_compatibility"
    /\ last.was_loaded
    /\ last.err = InferenceMsg
    /\ last.ret = FALSE
    /\ ~last.raised

---------------------------------------------------------------------------
(* Claims checked under SpecConfig *)

\* the key paths that lead to a value of the configuration
ExistingPaths ==
    { <<"model">>, <<"ui">>, <<"model", "path">>, <<"model", "confidence_threshold">>,
      <<"model", "iou_threshold">>, <<"model", "device">>, <<"ui", "theme">> }

\* C20: AppConfig.get raises nothing; for a key path of which a segment is
\* missing or which runs through a scalar it returns the default the caller
\* supplied, and it leaves the configuration as it was.
C20_GetUnknownKey ==
    /\ [](last.op = "get" =>
             /\ ~last.raised
             /\ (last.arg \notin ExistingPaths => last.ret = last.default))
    /\ [][last'.op = "get" => UNCHANGED <<config, model, model_path, is_loaded, model_info>>]_vars

\* C20: a lookup through a scalar (model.device.x) returned the default
C20_Witness ==
    /\ last.op = "get"
    /\ last.arg = <<"model", "device", "x">>
    /\ last.default = Leaf("fallback")
    /\ last.ret = Leaf("fallback")
    /\ get_confidence_threshold = 70

---------------------------------------------------------------------------
(* Claims checked under SpecStatus *)

\* C23: get_model_status raises nothing in any Detector state; it returns
\* is_loaded, model_path, device, model_info and both thresholds as they are,
\* and changes neither the Detector nor the configuration.
C23_StatusAlwaysSafe ==
    [][last'.op = "get_model_status" =>
          /\ ~last'.raised
          /\ last'.ret.is_loaded = is_loaded
          /\ last'.ret.model_path = model_path
          /\ last'.ret.device = config.device
          /\ last'.ret.model_info = model_info
          /\ last'.ret.confidence_threshold = config.confidence_threshold
          /\ last'.ret.iou_threshold = config.iou_threshold
          /\ UNCHANGED <<config, model, model_path, is_loaded, model_info, calls>>]_vars

\* C23: the status was asked for after a load that failed on a Detector that
\* was not loaded
C23_Witness ==
    /\ last.op = "get_model_status"
    /\ last.after_missing_load
    /\ ~last.was_loaded
    /\ last.ret.is_loaded = FALSE
    /\ last.ret.model_path = "missing.pt"
    /\ last.ret.confidence_threshold = 70

---------------------------------------------------------------------------
(* Claims checked under Spec *)

\* C7: at most one predict call on the ModelManager is outstanding at any
\* time.
C7_OnePredictInFlight == Cardinality(InFlight) <= 1

\* C8: start_analysis checks that an image is loaded, that a patient is
\* selected and that the Detector is Loaded, in this order; when a check fails
\* it ends with the warning of the first failing check, starts no
\* AnalysisThread and no predict call.  (An image whose pixels are all zero
\* is counted as not loaded here, as the check of line 322 counts it.)
C8_ValidationInOrder ==
    [][(ui_last' # ui_last /\ ui_last'.handler = "start_analysis") =>
          LET reason == IF current_image \in {"None", "black.png"} THEN MsgLoadImageFirst
                        ELSE IF current_patient_id = "None" THEN MsgSelectPatient
                        ELSE IF ~is_loaded THEN MsgModelNotLoaded
                        ELSE "pass"
          IN  IF reason = "pass"
              THEN ui_last'.outcome = "dispatched"
              ELSE /\ ui_last'.outcome = "warning"
                   /\ ui_last'.msg_box = reason
                   /\ UNCHANGED <<threads, calls>>]_vars

\* C9: when predict raised in an analysis thread, the thread emits the error
\* signal with the message and nothing else, and the handler that signal
\* reaches is on_analysis_error: it shows the error, ends the analysis as
\* failed, leaves the stored result alone and makes no Persistence Gateway
\* call.
C9_InferenceErrorNotPersisted ==
    [][/\ \A t \in Threads :
             (calls[t].pc = "raised" /\ calls'[t].pc = "idle") =>
                 gui_queue' = Append(gui_queue,
                                     [sig |-> "error", thread |-> t, result |-> <<>>,
                                      msg |-> calls[t].err])
       /\ (/\ gui_queue # <<>>
           /\ Head(gui_queue).sig = "error"
           /\ gui_queue' = Tail(gui_queue)) =>
             /\ ui_last'.handler = "on_analysis_error"
             /\ ui_last'.db_calls = <<>>
             /\ ui_last'.msg_box = Head(gui_queue).msg
             /\ status_label' = StatusError
             /\ ~progress_bar'
             /\ analyze_button'
             /\ UNCHANGED <<analysis_result, results_text, image_container>>]_vars

\* C9: an analysis whose inference failed has been handled
C9_Witness ==
    /\ ui_last.handler = "on_analysis_error"
    /\ ui_last.msg_box = InferenceMsg
    /\ status_label = StatusError
    /\ ui_last.db_calls = <<>>
    /\ is_loaded

\* C10: when a Persistence Gateway call failed after a successful inference,
\* the result is displayed, the failure is shown to the user, and the status
\* does not report plain success.
C10_PersistenceFailureSurfaced ==
    (ui_last.handler = "on_analysis_finished" /\ ui_last.outcome # "ok") =>
        /\ results_text = analysis_result.detections
        /\ ui_last.msg_box # ""
        /\ status_label # StatusCompleted

\* the order of the steps of on_analysis_finished
StepOrder ==
    <<"display_analysis_results", "add_image", "add_analysis_result",
      "add_analytics_data", "add_analytics_data">>

\* C13: on_analysis_finished takes its steps in one order: the overlays are
\* drawn on a copy and displayed, then add_image, add_analysis_result,
\* add_analytics_data for detection_count, add_analytics_data for
\* max_confidence; the steps made are an initial part of this list (all of
\* it when no gateway call failed), the gateway calls carry the selected
\* patient, and the stored image is not changed while the stored result is
\* the one received.
C13_SideEffectOrder ==
    /\ [](ui_last.handler = "on_analysis_finished" =>
             LET st == ui_last.steps IN
             /\ Len(st) \in 2..5
             /\ \A k \in DOMAIN st : st[k].call = StepOrder[k]
             /\ Tail(st) = ui_last.db_calls
             /\ st[2].patient = current_patient_id
             /\ Len(st) >= 4 => (st[4].metric = "detection_count"
                                 /\ st[4].patient = current_patient_id)
             /\ Len(st) >= 5 => (st[5].metric = "max_confidence"
                                 /\ st[5].patient = current_patient_id)
             /\ ui_last.outcome = "ok" => Len(st) = 5)
    /\ [][(/\ gui_queue # <<>>
           /\ Head(gui_queue).sig = "finished"
           /\ gui_queue' = Tail(gui_queue)) =>
             /\ ui_last'.handler = "on_analysis_finished"
             /\ UNCHANGED <<current_image, current_image_path, current_patient_id>>
             /\ analysis_result' = Head(gui_queue).result
             /\ (ui_last'.steps[1].drawn =>
                    /\ image_container'.image = current_image
                    /\ image_container'.overlay = analysis_result'.detections.detections)]_vars

\* C13: a result with a detection was drawn and all four gateway calls made
C13_Witness ==
    /\ ui_last.handler = "on_analysis_finished"
    /\ ui_last.outcome = "ok"
    /\ Len(ui_last.steps) = 5
    /\ ui_last.steps[1].drawn
    /\ ui_last.steps[2].patient = "P1"
    /\ image_container.overlay = <<Box(1, 90)>>

\* C21: no retry: the handler of the error signal starts no thread and no
\* predict call and shows a text that contains the message of the signal
\* verbatim; a predict call begins only in a thread that start_analysis
\* started, and a thread is started only by a start_analysis that the user
\* triggered with the enabled analyze button.
C21_NoRetry ==
    [][/\ (/\ gui_queue # <<>>
           /\ Head(gui_queue).sig = "error"
           /\ gui_queue' = Tail(gui_queue)) =>
             /\ ui_last'.handler = "on_analysis_error"
             /\ \E k \in DOMAIN ui_last'.steps[1].text :
                   ui_last'.steps[1].text[k] = Head(gui_queue).msg
             /\ calls' = calls
             /\ \A t \in Threads : threads'[t].st = "started" => threads[t].st = "started"
             /\ threads'[Head(gui_queue).thread].st = "free"
       /\ \A t \in Threads :
             (calls[t].pc = "idle" /\ calls'[t].pc # "idle") => threads[t].st = "started"
       /\ \A t \in Threads :
             (threads[t].st # "started" /\ threads'[t].st = "started") =>
                 /\ analyze_button
                 /\ ui_last'.handler = "start_analysis"
                 /\ ui_last'.outcome = "dispatched"]_vars

\* C21: a failed analysis has been handled and nothing runs or waits
C21_Witness ==
    /\ ui_last.handler = "on_analysis_error"
    /\ ui_last.steps = <<[call |-> "QMessageBox.critical",
                          text |-> <<"Analysis failed: ", InferenceMsg>>]>>
    /\ \A t \in Threads : threads[t].st = "free" /\ calls[t].pc = "idle"
    /\ gui_queue = <<>>
    /\ analyze_button

\* C26: on_analysis_finished writes the image record and the analytics
\* points for the image path and the patient that were selected when
\* start_analysis created the thread of this result, and draws the overlays
\* on the image that thread analysed, whatever the user loaded or selected
\* while the thread ran.
C26_SavedForDispatchedImage ==
    [][(/\ gui_queue # <<>>
        /\ Head(gui_queue).sig = "finished"
        /\ gui_queue' = Tail(gui_queue)) =>
          LET th == threads[Head(gui_queue).thread]
              db == ui_last'.db_calls
          IN  /\ db # <<>>
              /\ db[1].call = "add_image"
              /\ db[1].image_path = th.image
              /\ db[1].patient = th.patient
              /\ \A k \in DOMAIN db :
                    db[k].call = "add_analytics_data" => db[k].patient = th.patient
              /\ image_container'.image = th.image
              /\ image_container'.overlay = Head(gui_queue).result.detections.detections]_vars

\* an analysis whose on_analysis_started has run and whose result or error
\* has not been handled yet
InProgress(t) ==
    /\ threads[t].st \in {"running", "emitted"}
    /\ \A k \in DOMAIN gui_queue :
          ~(gui_queue[k].sig = "started" /\ gui_queue[k].thread = t)

\* C27: while an analysis is in progress the analyze button is disabled.
C27_ButtonDisabledInProgress ==
    \A t \in Threads : InProgress(t) => ~analyze_button

\* C28: when the analyze button is enabled, current_image is a decoded image
\* and current_image_path is its path; a load_image that fails changes
\* neither the image, nor its path, nor the button.
C28_ButtonMeansImage ==
    /\ [](analyze_button =>
             /\ current_image # "None"
             /\ imread(current_image_path) = current_image)
    /\ [][(ui_last'.handler = "load_image" /\ ui_last'.outcome = "error") =>
             UNCHANGED <<current_image, current_image_path, analyze_button>>]_vars

\* the names of the gateway calls of a list of calls
CallNames(db) == [k \in DOMAIN db |-> db[k].call]

\* C30: the gateway calls of save_analysis_to_database are gated and never
\* taken back: add_analysis_result and the two add_analytics_data calls are
\* made only after an add_image that returned an image id; when a call fails
\* the calls before it stay made, the calls after it are not made, and no
\* call other than these additions is made.
C30_GatedNoRollback ==
    ui_last.handler = "on_analysis_finished" =>
        LET db == ui_last.db_calls
            o == ui_last.outcome
        IN  /\ \A k \in DOMAIN db :
                  db[k].call \in {"add_image", "add_analysis_result", "add_analytics_data"}
            /\ \A k \in DOMAIN db :
                  db[k].call # "add_image" =>
                      /\ k > 1
                      /\ db[1].call = "add_image"
                      /\ o \notin {"add_image_returns_none", "add_image_raises"}
            /\ o \in {"add_image_returns_none", "add_image_raises"} =>
                  CallNames(db) = <<"add_image">>
            /\ o = "add_analysis_result_raises" =>
                  CallNames(db) = <<"add_image", "add_analysis_result">>
            /\ o = "add_detection_count_raises" =>
                  CallNames(db) = <<"add_image", "add_analysis_result", "add_analytics_data">>
            /\ o \in {"add_max_confidence_raises", "ok"} =>
                  CallNames(db) = <<"add_image", "add_analysis_result",
                                    "add_analytics_data", "add_analytics_data">>

\* C30: add_analysis_result failed after the image record was written
C30_Witness ==
    /\ ui_last.handler = "on_analysis_finished"
    /\ ui_last.outcome = "add_analysis_result_raises"
    /\ Len(ui_last.db_calls) = 2
    /\ ui_last.db_calls[1].image_path = "a.png"
    /\ ui_last.db_calls[2].detection_count = 1

\* C25: each run of a worker thread reports one outcome.  AnalysisThread.run
\* emits finished with the dict predict returned, or error with the message
\* of the exception predict raised, once, and nothing else reports for the
\* thread; ModelLoadingThread.run emits finished when load_model returned
\* True and error otherwise, once.
C25_OneOutcomePerRun ==
    /\ [](\A t \in Threads :
             Cardinality(Outcomes(gui_queue, t)) = (IF threads[t].st = "emitted" THEN 1 ELSE 0))
    /\ [](Cardinality(Outcomes(gui_queue, "model")) <= (IF model_thread = "done" THEN 1 ELSE 0))
    /\ [][\A t \in Threads :
             /\ threads[t].st = "running" => threads'[t].st \in {"running", "emitted"}
             /\ (threads[t].st = "running" /\ threads'[t].st = "emitted") =>
                   /\ calls[t].pc \in {"returned", "raised"}
                   /\ calls[t].pc = "returned" =>
                         gui_queue' = Append(gui_queue,
                                             [sig |-> "finished", thread |-> t,
                                              result |-> calls[t].ret, msg |-> ""])
                   /\ calls[t].pc = "raised" =>
                         gui_queue' = Append(gui_queue,
                                             [sig |-> "error", thread |-> t,
                                              result |-> <<>>, msg |-> calls[t].err])]_vars
    /\ [][(model_thread = "running" /\ model_thread' = "done") =>
             /\ last'.op = "load_model"
             /\ last'.ret = TRUE =>
                   gui_queue' = Append(gui_queue, [sig |-> "model_finished", thread |-> "model",
                                                   result |-> <<>>, msg |-> ""])
             /\ last'.ret # TRUE =>
                   gui_queue' = Append(gui_queue, [sig |-> "model_error", thread |-> "model",
                                                   result |-> <<>>, msg |-> MsgModelFailed])]_vars

\* C25: the run of T1 has reported a result with a detection and the run of
\* T2 the message of a failed inference; neither has been handled
C25_Witness ==
    /\ threads["T1"].st = "emitted"
    /\ threads["T2"].st = "emitted"
    /\ model_thread = "done"
    /\ \E k \in DOMAIN gui_queue :
          /\ gui_queue[k].thread = "T1"
          /\ gui_queue[k].sig = "finished"
          /\ gui_queue[k].result.detections.count = 1
    /\ \E k \in DOMAIN gui_queue :
          /\ gui_queue[k].thread = "T2"
          /\ gui_queue[k].sig = "error"
          /\ gui_queue[k].msg = InferenceMsg

---------------------------------------------------------------------------
(* Claims checked under SpecLive *)

---------------------------------------------------------------------------
(* Claims checked under SpecTuning *)

\* C11: the thresholds written with an analysis result are those of the
\* inference that produced it: the confidence threshold is the one that
\* predict call passed to the model or the one it recorded in its result, the
\* IoU threshold the one it passed to the model, whatever was changed since.
C11_PersistedThresholds ==
    [][(/\ gui_queue # <<>>
        /\ Head(gui_queue).sig = "finished"
        /\ gui_queue' = Tail(gui_queue)
        /\ Len(ui_last'.db_calls) >= 2) =>
          LET e == Head(gui_queue)
              used == threads[e.thread].used
              rec == ui_last'.db_calls[2]
          IN  /\ rec.call = "add_analysis_result"
              /\ rec.confidence_threshold \in
                     {used.conf, e.result.detections.confidence_threshold}
              /\ rec.iou_threshold = used.iou]_vars

\* C12: a predict call works with one confidence threshold: the value it
\* passed to the model is the value every box was filtered with and the
\* value recorded as confidence_threshold in the result.
C12_OneThresholdPerCall ==
    \A c \in Callers :
        Returned(c) =>
            /\ calls[c].ret.detections.confidence_threshold = calls[c].conf
            /\ Retained(c) = filtered(calls[c].raw, calls[c].conf)

=============================================================================
